---- MODULE Spec2Model ----
(***************************************************************************)
(* A model of lib/utils.js of mantra-cli: the configuration helpers        *)
(* (DEFAULT_CONFIG, generateConfig, getCustomConfig, readConfig), the      *)
(* template and file helpers (getFileContent, createFile, createDir), the  *)
(* marker editor (editFile) and the command helpers (executeCommand,       *)
(* runScriptFile).                                                         *)
(***************************************************************************)
EXTENDS Integers, Sequences, FiniteSets, TLC

VARIABLES
  DEFAULT_CONFIG,  \* the module-level object of utils.js:10, a JS value
  cfgFile,         \* what is at ./mantra_cli.yaml: [lstat, read, doc]
  cfgLast          \* the last configuration call and what it gave back

VARIABLES
  nodes,           \* the file system: normalised path -> [kind, data]
  fsLast           \* the last file call and what it did

VARIABLES
  edited,          \* the file insertToFile and removeFromFile work on
  editLast         \* the last edit call and what it did

VARIABLES
  platform,        \* process.platform
  execLast         \* the last command call and what it did

cfgVars == <<DEFAULT_CONFIG, cfgFile, cfgLast>>
fsVars == <<nodes, fsLast>>
editVars == <<edited, editLast>>
execVars == <<platform, execLast>>
vars == <<cfgVars, fsVars, editVars, execVars>>

(***************************************************************************)
(* JavaScript values.  Every value is a record [kind, s, props]: a scalar  *)
(* keeps its text in s, an object keeps its own enumerable properties in   *)
(* props, in insertion order, as records [k, v].                           *)
(***************************************************************************)
Undefined == [kind |-> "undefined", s |-> "", props |-> <<>>]
JsInt(t) == [kind |-> "int", s |-> t, props |-> <<>>]
JsBool(t) == [kind |-> "bool", s |-> t, props |-> <<>>]
JsStr(t) == [kind |-> "str", s |-> t, props |-> <<>>]
JsObject(ps) == [kind |-> "object", s |-> "", props |-> ps]
Prop(k, v) == [k |-> k, v |-> v]

Keys(o) == {o.props[i].k : i \in 1..Len(o.props)}
HasKey(o, k) == k \in Keys(o)
Get(o, k) == o.props[CHOOSE i \in 1..Len(o.props) : o.props[i].k = k].v

\* obj[k] = v: an existing property keeps its place, a new one goes last.
SetProp(ps, k, v) ==
  IF \E i \in 1..Len(ps) : ps[i].k = k
  THEN [i \in 1..Len(ps) |-> IF ps[i].k = k THEN Prop(k, v) ELSE ps[i]]
  ELSE Append(ps, Prop(k, v))

RECURSIVE AssignProps(_, _)
AssignProps(ps, src) ==
  IF src = <<>> THEN ps
  ELSE AssignProps(SetProp(ps, Head(src).k, Head(src).v), Tail(src))

\* The initial value of DEFAULT_CONFIG.
DefaultLiteral ==
  JsObject(<<Prop("tabSize", JsInt("2")), Prop("storybook", JsBool("false"))>>)

(***************************************************************************)
(* YAML documents.  A document is a sequence of lines [key, text, sub]:    *)
(* "key: text" for a scalar entry, "key:" followed by the indented block   *)
(* sub (a sequence of <<key, text>>) for a nested mapping.  A line with an *)
(* empty key is one js-yaml cannot parse.                                  *)
(***************************************************************************)
ScalarLine(k, t) == [key |-> k, text |-> t, sub |-> <<>>]
BlockLine(k, b) == [key |-> k, text |-> "", sub |-> b]
BadLine == [key |-> "", text |-> "][", sub |-> <<>>]

\* js-yaml's core schema: how the text of a plain scalar resolves.
ParseScalar(t) ==
  IF t \in {"true", "false"} THEN JsBool(t)
  ELSE IF t \in {"1", "2", "4"} THEN JsInt(t)
  ELSE JsStr(t)

RECURSIVE ParseBlock(_)
ParseBlock(b) ==
  IF b = <<>> THEN <<>>
  ELSE <<Prop(Head(b)[1], ParseScalar(Head(b)[2]))>> \o ParseBlock(Tail(b))

ParseLine(l) ==
  IF l.sub = <<>> THEN Prop(l.key, ParseScalar(l.text))
  ELSE Prop(l.key, JsObject(ParseBlock(l.sub)))

\* yaml.safeLoad throws a YAMLException on an unparsable line and on a
\* duplicated mapping key.
YamlMalformed(doc) ==
  \/ \E i \in 1..Len(doc) : doc[i].key = ""
  \/ \E i, j \in 1..Len(doc) : i # j /\ doc[i].key = doc[j].key

\* yaml.safeLoad of a well-formed document: undefined for the empty
\* document, else the top-level mapping.
SafeLoad(doc) ==
  IF doc = <<>> THEN Undefined
  ELSE JsObject([i \in 1..Len(doc) |-> ParseLine(doc[i])])

DumpScalar(v) == v.s

RECURSIVE DumpBlock(_)
DumpBlock(ps) ==
  IF ps = <<>> THEN <<>>
  ELSE <<<<Head(ps).k, DumpScalar(Head(ps).v)>>>> \o DumpBlock(Tail(ps))

DumpProp(p) ==
  IF p.v.kind = "object" THEN BlockLine(p.k, DumpBlock(p.v.props))
  ELSE ScalarLine(p.k, DumpScalar(p.v))

\* yaml.safeDump of an object: one line per property, in property order.
SafeDump(o) == [i \in 1..Len(o.props) |-> DumpProp(o.props[i])]

(***************************************************************************)
(* generateConfig, utils.js:22-26.  _.clone gives the call an object of    *)
(* its own, so the properties assigned land on the copy; the result is the *)
(* copy, and neither DEFAULT_CONFIG nor overrides is written.              *)
(***************************************************************************)
Clone(o) == JsObject(o.props)

\* _.assign(object, source): a source that is not an object has no own
\* properties to copy.
Assign(o, src) ==
  IF src.kind = "object" THEN JsObject(AssignProps(o.props, src.props)) ELSE o

generateConfig(default, overrides) == Assign(Clone(default), overrides)

\* A checkFileExists whose catch swallows every lstat error.
checkFileExistsCatchAll(lstat) ==
  [outcome |-> "return", value |-> lstat = "ok", err |-> ""]

\* checkFileExists, utils.js:130-142, on the outcome of fs.lstatSync.
checkFileExists(lstat) ==
  IF lstat = "ok" THEN [outcome |-> "return", value |-> TRUE, err |-> ""]
  ELSE IF lstat = "ENOENT" THEN [outcome |-> "return", value |-> FALSE, err |-> ""]
  ELSE [outcome |-> "throw", value |-> FALSE, err |-> lstat]

\* parseYamlFromFile, utils.js:169-172, on the file [read, doc].
parseYamlFromFile(f) ==
  IF f.read # "ok" THEN [outcome |-> "throw", value |-> Undefined, err |-> f.read]
  ELSE IF YamlMalformed(f.doc)
    THEN [outcome |-> "throw", value |-> Undefined, err |-> "YAMLException"]
  ELSE [outcome |-> "return", value |-> SafeLoad(f.doc), err |-> ""]

(***************************************************************************)
(* readConfig, utils.js:188-199.  config is a second name of the object    *)
(* DEFAULT_CONFIG (line 190), so _.assign(config, userConfig) writes the   *)
(* module-level object.  The result names what the call gives back and the *)
(* value of DEFAULT_CONFIG after the call.                                 *)
(***************************************************************************)
readConfig(default, f) ==
  LET exists == checkFileExists(f.lstat)
      userConfig == parseYamlFromFile(f)
  IN IF exists.outcome = "throw"
       THEN [outcome |-> "throw", err |-> exists.err, ret |-> Undefined,
             sameObject |-> FALSE, default |-> default]
     ELSE IF ~exists.value
       THEN [outcome |-> "return", err |-> "", ret |-> default,
             sameObject |-> TRUE, default |-> default]
     ELSE IF userConfig.outcome = "throw"
       THEN [outcome |-> "throw", err |-> userConfig.err, ret |-> Undefined,
             sameObject |-> FALSE, default |-> default]
     ELSE [outcome |-> "return", err |-> "",
           ret |-> Assign(default, userConfig.value),
           sameObject |-> TRUE,
           default |-> Assign(default, userConfig.value)]

\* getCustomConfig, utils.js:28-32: the parameter defaults to {} when the
\* caller passes undefined.  argAfter is the caller's overrides object after
\* the call: _.assign writes its first argument only.
getCustomConfig(default, overrides) ==
  LET o == IF overrides.kind = "undefined" THEN JsObject(<<>>) ELSE overrides
      config == generateConfig(default, o)
  IN [config |-> config, yaml |-> SafeDump(config), argAfter |-> overrides,
      default |-> default]

(***************************************************************************)
(* The configuration file and the inputs the model draws.                  *)
(***************************************************************************)
MaxDocLines == 2

Lines ==
  { ScalarLine("storybook", "true"), ScalarLine("tabSize", "4"),
    ScalarLine("extra", "abc"), BlockLine("tabSize", <<<<"x", "1">>>>),
    BadLine }

Docs == UNION {[1..n -> Lines] : n \in 0..MaxDocLines}

Absent == [lstat |-> "ENOENT", read |-> "ENOENT", doc |-> <<>>]

CfgFiles ==
  {Absent, [lstat |-> "EACCES", read |-> "EACCES", doc |-> <<>>]}
  \cup {[lstat |-> "ok", read |-> r, doc |-> <<>>] : r \in {"EACCES", "EISDIR"}}
  \cup {[lstat |-> "ok", read |-> "ok", doc |-> d] : d \in Docs}

Overrides ==
  {Undefined, JsObject(<<>>)}
  \cup {SafeLoad(d) : d \in {e \in Docs : e # <<>> /\ ~YamlMalformed(e)}}

NoCall ==
  [op |-> "none", outcome |-> "none", err |-> "", ret |-> Undefined,
   sameObject |-> FALSE, yaml |-> <<>>, arg |-> Undefined,
   argAfter |-> Undefined]

CfgInit ==
  /\ DEFAULT_CONFIG = DefaultLiteral
  /\ cfgFile = Absent
  /\ cfgLast = NoCall

\* The user creates, changes or deletes ./mantra_cli.yaml between calls.
SetConfigFile ==
  /\ \E f \in CfgFiles : f # cfgFile /\ cfgFile' = f
  /\ cfgLast' = NoCall
  /\ UNCHANGED <<DEFAULT_CONFIG, fsVars, editVars, execVars>>

ReadConfig ==
  LET r == readConfig(DEFAULT_CONFIG, cfgFile)
  IN /\ DEFAULT_CONFIG' = r.default
     /\ cfgLast' = [op |-> "readConfig", outcome |-> r.outcome, err |-> r.err,
                    ret |-> r.ret, sameObject |-> r.sameObject, yaml |-> <<>>,
                    arg |-> Undefined, argAfter |-> Undefined]
     /\ UNCHANGED <<cfgFile, fsVars, editVars, execVars>>

GetCustomConfig ==
  \E o \in Overrides :
    LET r == getCustomConfig(DEFAULT_CONFIG, o)
    IN /\ DEFAULT_CONFIG' = r.default
       /\ cfgLast' = [op |-> "getCustomConfig", outcome |-> "return",
                      err |-> "", ret |-> r.config, sameObject |-> FALSE,
                      yaml |-> r.yaml, arg |-> o, argAfter |-> r.argAfter]
       /\ UNCHANGED <<cfgFile, fsVars, editVars, execVars>>

\* checkFileExists is exported and called on its own as well; here on the
\* configuration file.
CheckFileExists ==
  LET r == checkFileExists(cfgFile.lstat)
  IN /\ cfgLast' = [op |-> "checkFileExists", outcome |-> r.outcome,
                    err |-> r.err,
                    ret |-> IF r.outcome = "throw" THEN Undefined
                            ELSE IF r.value THEN JsBool("true")
                            ELSE JsBool("false"),
                    sameObject |-> FALSE, yaml |-> <<>>, arg |-> Undefined,
                    argAfter |-> Undefined]
     /\ UNCHANGED <<DEFAULT_CONFIG, cfgFile, fsVars, editVars, execVars>>

CfgNext == SetConfigFile \/ ReadConfig \/ GetCustomConfig \/ CheckFileExists

(***************************************************************************)
(* Text and bytes.  A Buffer holds bytes and a string holds characters,    *)
(* both as sequences of one-token strings; an ASCII byte and its character *)
(* are the same token.  "xFF" is a byte that is not valid UTF-8, "uFFFD"   *)
(* the replacement character it decodes to.                                *)
(***************************************************************************)
Buffer(b) == [type |-> "Buffer", data |-> b]
String(c) == [type |-> "string", data |-> c]
NoValue == [type |-> "undefined", data |-> <<>>]

RECURSIVE Utf8Decode(_)
Utf8Decode(b) ==
  IF b = <<>> THEN <<>>
  ELSE (IF Head(b) = "xFF" THEN <<"uFFFD">> ELSE <<Head(b)>>) \o Utf8Decode(Tail(b))

RECURSIVE Utf8Encode(_)
Utf8Encode(c) ==
  IF c = <<>> THEN <<>>
  ELSE (IF Head(c) = "uFFFD" THEN <<"xEF", "xBF", "xBD">> ELSE <<Head(c)>>)
       \o Utf8Encode(Tail(c))

\* The bytes fs.writeFileSync puts on disk for a Buffer or a string.
BytesOf(v) == IF v.type = "string" THEN Utf8Encode(v.data) ELSE v.data

\* lodash's toString of the template source: a Buffer is decoded as UTF-8.
baseToString(v) == IF v.type = "Buffer" THEN Utf8Decode(v.data) ELSE v.data

\* JavaScript truthiness of the templateVariables argument.
Truthy(v) == v.kind = "object"

JsNull == [kind |-> "null", s |-> "", props |-> <<>>]

(***************************************************************************)
(* _.template(source)(variables), for the ES delimiter ${name}: one pass   *)
(* over the text; the compiled template evaluates name inside              *)
(* with (variables) { ... }, so a name that is no property of variables is *)
(* a ReferenceError, and a property that is null or undefined prints as    *)
(* the empty string.  Variable names are one character long.  IndexOfClose *)
(* is the position of the first "}" at or after i, 0 when there is none.   *)
(***************************************************************************)
RECURSIVE IndexOfClose(_, _)
IndexOfClose(t, i) ==
  IF i > Len(t) THEN 0
  ELSE IF t[i] = "}" THEN i
  ELSE IndexOfClose(t, i + 1)

ValueText(v) == IF v.kind \in {"undefined", "null"} THEN <<>> ELSE <<v.s>>

RECURSIVE Render(_, _, _)
Render(t, i, variables) ==
  IF i > Len(t) THEN [outcome |-> "return", text |-> <<>>]
  ELSE IF t[i] = "$" /\ i + 3 <= Len(t) /\ t[i + 1] = "{"
          /\ IndexOfClose(t, i + 2) = i + 3
    THEN IF ~HasKey(variables, t[i + 2])
           THEN [outcome |-> "throw", text |-> <<>>]
         ELSE LET rest == Render(t, i + 4, variables)
              IN [outcome |-> rest.outcome,
                  text |-> ValueText(Get(variables, t[i + 2])) \o rest.text]
  ELSE LET rest == Render(t, i + 1, variables)
       IN [outcome |-> rest.outcome, text |-> <<t[i]>> \o rest.text]

\* The template files of the model; fs.readFileSync of any other path
\* throws ENOENT.
Templates ==
  [plain |-> <<"H", "i">>,
   name |-> <<"xFF", "$", "{", "n", "}">>]

TemplatePaths == {"plain", "name", "missing"}

readFileSync(templatePath) ==
  IF templatePath \in DOMAIN Templates
  THEN [outcome |-> "return", err |-> "", value |-> Buffer(Templates[templatePath])]
  ELSE [outcome |-> "throw", err |-> "ENOENT", value |-> NoValue]

\* getFileContent, utils.js:84-92.
getFileContent(templatePath, templateVariables) ==
  LET templateContent == readFileSync(templatePath)
      rendered == Render(baseToString(templateContent.value), 1, templateVariables)
  IN IF templateContent.outcome = "throw" THEN templateContent
     ELSE IF Truthy(templateVariables)
       THEN IF rendered.outcome = "throw"
              THEN [outcome |-> "throw", err |-> "ReferenceError", value |-> NoValue]
            ELSE [outcome |-> "return", err |-> "", value |-> String(rendered.text)]
     ELSE templateContent

(***************************************************************************)
(* Paths.  A path is a sequence of characters; the file system resolves it *)
(* to its components, dropping empty ones and ".".                         *)
(***************************************************************************)
RECURSIVE Split(_, _)
Split(p, cur) ==
  IF p = <<>> THEN (IF cur = <<>> THEN <<>> ELSE <<cur>>)
  ELSE IF Head(p) = "/"
    THEN (IF cur = <<>> THEN <<>> ELSE <<cur>>) \o Split(Tail(p), <<>>)
  ELSE Split(Tail(p), Append(cur, Head(p)))

Components(p) == SelectSeq(Split(p, <<>>), LAMBDA c : c # <<".">>)

Front(c) == SubSeq(c, 1, Len(c) - 1)

Exists(fs, c) == c = <<>> \/ c \in DOMAIN fs
IsDir(fs, c) == c = <<>> \/ (c \in DOMAIN fs /\ fs[c].kind = "dir")
IsFile(fs, c) == c \in DOMAIN fs /\ fs[c].kind = "file"

DirNode == [kind |-> "dir", data |-> <<>>]
FileNode(b) == [kind |-> "file", data |-> b]

\* mkdirsSync of fs-extra (mkdir -p): creates each missing directory from
\* the top down, and fails on a component that is a file.
RECURSIVE MkdirsFrom(_, _, _)
MkdirsFrom(fs, c, i) ==
  IF i > Len(c) THEN [outcome |-> "return", err |-> "", fs |-> fs]
  ELSE LET p == SubSeq(c, 1, i)
       IN IF IsFile(fs, p)
            THEN [outcome |-> "throw",
                  err |-> IF i = Len(c) THEN "EEXIST" ELSE "ENOTDIR", fs |-> fs]
          ELSE IF IsDir(fs, p) THEN MkdirsFrom(fs, c, i + 1)
          ELSE MkdirsFrom((p :> DirNode) @@ fs, c, i + 1)

mkdirsSync(fs, path) == MkdirsFrom(fs, Components(path), 1)

\* A writeFileSync that opens the file with flag 'a': what was in the file
\* stays, and the data goes after it.
writeFileSyncAppend(fs, path, data) ==
  LET c == Components(path)
  IN IF c = <<>> \/ IsDir(fs, c)
       THEN [outcome |-> "throw", err |-> "EISDIR", fs |-> fs]
     ELSE IF ~IsDir(fs, Front(c))
       THEN [outcome |-> "throw", err |-> "ENOENT", fs |-> fs]
     ELSE [outcome |-> "return", err |-> "",
           fs |-> (c :> FileNode((IF IsFile(fs, c) THEN fs[c].data ELSE <<>>)
                                 \o BytesOf(data))) @@ fs]

\* fs.writeFileSync(path, data) with the default flag 'w': the file is
\* created or truncated, then holds the bytes of data.
writeFileSync(fs, path, data) ==
  LET c == Components(path)
  IN IF c = <<>> \/ IsDir(fs, c)
       THEN [outcome |-> "throw", err |-> "EISDIR", fs |-> fs]
     ELSE IF ~Exists(fs, Front(c))
       THEN [outcome |-> "throw", err |-> "ENOENT", fs |-> fs]
     ELSE IF ~IsDir(fs, Front(c))
       THEN [outcome |-> "throw", err |-> "ENOTDIR", fs |-> fs]
     ELSE [outcome |-> "return", err |-> "",
           fs |-> (c :> FileNode(BytesOf(data))) @@ fs]

\* outputFileSync of fs-extra: writes at once when path.dirname(file)
\* exists, else makes the directories first.
outputFileSync(fs, file, data) ==
  LET dir == Front(Components(file))
      made == MkdirsFrom(fs, dir, 1)
  IN IF Exists(fs, dir) THEN writeFileSync(fs, file, data)
     ELSE IF made.outcome = "throw" THEN made
     ELSE writeFileSync(made.fs, file, data)

\* String.prototype.replace(/^\.\//, ''): one leading "./" is removed.
StripDotSlash(p) ==
  IF Len(p) >= 2 /\ p[1] = "." /\ p[2] = "/" THEN SubSeq(p, 3, Len(p)) ELSE p

(***************************************************************************)
(* createDir, utils.js:68-74, and createFile, utils.js:105-111.  logged    *)
(* holds the logger.create calls of the call: the path displayed, and      *)
(* whether the target was on the disk when the logger was called.          *)
(***************************************************************************)
LogCreate(fs, target, displayPath) ==
  [path |-> displayPath, onDisk |-> Components(target) \in DOMAIN fs]

createDir(fs, path) ==
  LET made == mkdirsSync(fs, path)
  IN IF made.outcome = "throw"
       THEN [outcome |-> "throw", err |-> made.err, fs |-> made.fs,
             content |-> NoValue, logged |-> <<>>]
     ELSE [outcome |-> "return", err |-> "", fs |-> made.fs,
           content |-> NoValue,
           logged |-> <<LogCreate(made.fs, path,
                                  Append(StripDotSlash(path), "/"))>>]

\* A createFile that makes the target's directories before it renders.
createFileDirsFirst(fs, templatePath, targetPath, templateVariables) ==
  LET made == MkdirsFrom(fs, Front(Components(targetPath)), 1)
      fileContent == getFileContent(templatePath, templateVariables)
      written == outputFileSync(made.fs, targetPath, fileContent.value)
  IN IF made.outcome = "throw"
       THEN [outcome |-> "throw", err |-> made.err, fs |-> made.fs,
             content |-> NoValue, logged |-> <<>>]
     ELSE IF fileContent.outcome = "throw"
       THEN [outcome |-> "throw", err |-> fileContent.err, fs |-> made.fs,
             content |-> NoValue, logged |-> <<>>]
     ELSE IF written.outcome = "throw"
       THEN [outcome |-> "throw", err |-> written.err, fs |-> written.fs,
             content |-> fileContent.value, logged |-> <<>>]
     ELSE [outcome |-> "return", err |-> "", fs |-> written.fs,
           content |-> fileContent.value,
           logged |-> <<LogCreate(written.fs, targetPath,
                                  StripDotSlash(targetPath))>>]

\* A createFile that calls the logger before it writes.
createFileLogFirst(fs, templatePath, targetPath, templateVariables) ==
  LET fileContent == getFileContent(templatePath, templateVariables)
      written == outputFileSync(fs, targetPath, fileContent.value)
  IN IF fileContent.outcome = "throw"
       THEN [outcome |-> "throw", err |-> fileContent.err, fs |-> fs,
             content |-> NoValue, logged |-> <<>>]
     ELSE [outcome |-> written.outcome, err |-> written.err, fs |-> written.fs,
           content |-> fileContent.value,
           logged |-> <<LogCreate(fs, targetPath, StripDotSlash(targetPath))>>]

createFile(fs, templatePath, targetPath, templateVariables) ==
  LET fileContent == getFileContent(templatePath, templateVariables)
      written == outputFileSync(fs, targetPath, fileContent.value)
  IN IF fileContent.outcome = "throw"
       THEN [outcome |-> "throw", err |-> fileContent.err, fs |-> fs,
             content |-> NoValue, logged |-> <<>>]
     ELSE IF written.outcome = "throw"
       THEN [outcome |-> "throw", err |-> written.err, fs |-> written.fs,
             content |-> fileContent.value, logged |-> <<>>]
     ELSE [outcome |-> "return", err |-> "", fs |-> written.fs,
           content |-> fileContent.value,
           logged |-> <<LogCreate(written.fs, targetPath,
                                  StripDotSlash(targetPath))>>]

(***************************************************************************)
(* The paths and template variables the model draws.                       *)
(***************************************************************************)
MaxDepth == 1

RECURSIVE DirChain(_)
DirChain(k) == IF k = 0 THEN <<>> ELSE <<"d", "/">> \o DirChain(k - 1)

Prefixes == {<<>>, <<".", "/">>}

Bodies ==
  {DirChain(k) \o <<"f">> : k \in 0..MaxDepth}
  \cup {DirChain(k - 1) \o <<"d">> : k \in 1..MaxDepth}

TargetPaths ==
  {pre \o b : pre \in Prefixes, b \in Bodies} \cup {<<".", "/", ".", "/", "f">>}

\* What createFile is called with, and what getFileContent is called with
\* on its own.
CreateVariables ==
  {Undefined, JsObject(<<>>), JsObject(<<Prop("n", JsStr("S"))>>)}

TemplateVariables ==
  CreateVariables \cup {JsNull, JsObject(<<Prop("n", Undefined)>>)}

NoFsCall ==
  [op |-> "none", path |-> <<>>, template |-> "", variables |-> Undefined,
   outcome |-> "none", err |-> "", content |-> NoValue, logged |-> <<>>,
   diskChanged |-> FALSE, prior |-> "none"]

\* What was at the target before the call: "file", "dir", "blocked" (one
\* of the directories on its way is a file), "absent" (its parent directory
\* exists) or "orphan" (its parent directory is missing).
Prior(fs, path) ==
  LET c == Components(path)
  IN IF IsFile(fs, c) THEN "file"
     ELSE IF IsDir(fs, c) THEN "dir"
     ELSE IF \E i \in 1..(Len(c) - 1) : IsFile(fs, SubSeq(c, 1, i)) THEN "blocked"
     ELSE IF IsDir(fs, Front(c)) THEN "absent"
     ELSE "orphan"

FsInit ==
  /\ nodes = <<>>
  /\ fsLast = NoFsCall

CreateDir ==
  \E path \in TargetPaths :
    LET r == createDir(nodes, path)
    IN /\ nodes' = r.fs
       /\ fsLast' = [op |-> "createDir", path |-> path, template |-> "",
                     variables |-> Undefined, outcome |-> r.outcome,
                     err |-> r.err, content |-> r.content, logged |-> r.logged,
                     diskChanged |-> r.fs # nodes,
                     prior |-> Prior(nodes, path)]
       /\ UNCHANGED <<cfgVars, editVars, execVars>>

CreateFile ==
  \E templatePath \in TemplatePaths, targetPath \in TargetPaths,
     templateVariables \in CreateVariables :
    LET r == createFile(nodes, templatePath, targetPath, templateVariables)
    IN /\ nodes' = r.fs
       /\ fsLast' = [op |-> "createFile", path |-> targetPath,
                     template |-> templatePath,
                     variables |-> templateVariables, outcome |-> r.outcome,
                     err |-> r.err, content |-> r.content, logged |-> r.logged,
                     diskChanged |-> r.fs # nodes,
                     prior |-> Prior(nodes, targetPath)]
       /\ UNCHANGED <<cfgVars, editVars, execVars>>

\* getFileContent is exported and called on its own as well.
GetFileContent ==
  \E templatePath \in TemplatePaths, templateVariables \in TemplateVariables :
    LET r == getFileContent(templatePath, templateVariables)
    IN /\ fsLast' = [op |-> "getFileContent", path |-> <<>>,
                     template |-> templatePath,
                     variables |-> templateVariables, outcome |-> r.outcome,
                     err |-> r.err, content |-> r.value, logged |-> <<>>,
                     diskChanged |-> FALSE, prior |-> "none"]
       /\ UNCHANGED <<nodes, cfgVars, editVars, execVars>>

FsNext == CreateDir \/ CreateFile \/ GetFileContent

(***************************************************************************)
(* The marker editor, utils.js:34-61.  A file's text is a sequence of      *)
(* chunks.  editer is a library: editFile hands it the text and writes     *)
(* back whatever it returns, with no check of its own.  What the library   *)
(* gives back when the anchor (for insert) or the text (for remove) is not *)
(* in the file is the parameter noMatch: "undefined", "unchanged" (the     *)
(* text as it was) or "throws".  What fs.writeFileSync does with undefined *)
(* as its data is the parameter runtime: "coerces" (writes the text        *)
(* "undefined") or "rejects" (throws a TypeError before opening the file). *)
(***************************************************************************)
RECURSIVE IndexOf(_, _, _)
IndexOf(text, chunk, i) ==
  IF i > Len(text) THEN 0
  ELSE IF text[i] = chunk THEN i
  ELSE IndexOf(text, chunk, i + 1)

Found(text, chunk) == IndexOf(text, chunk, 1) # 0

NoMatchResult(text, noMatch) ==
  IF noMatch = "throws" THEN [outcome |-> "throw", kind |-> "undefined", data |-> <<>>]
  ELSE IF noMatch = "undefined"
    THEN [outcome |-> "return", kind |-> "undefined", data |-> <<>>]
  ELSE [outcome |-> "return", kind |-> "string", data |-> text]

\* editer.insert(string, target, options), options = [pos, anchor].
editerInsert(string, text, options, noMatch) ==
  LET i == IndexOf(text, options.anchor, 1)
      at == IF options.pos = "after" THEN i ELSE i - 1
  IN IF i = 0 THEN NoMatchResult(text, noMatch)
     ELSE [outcome |-> "return", kind |-> "string",
           data |-> SubSeq(text, 1, at) \o <<string>>
                    \o SubSeq(text, at + 1, Len(text))]

\* editer.remove(string, target, options).
editerRemove(string, text, noMatch) ==
  LET i == IndexOf(text, string, 1)
  IN IF i = 0 THEN NoMatchResult(text, noMatch)
     ELSE [outcome |-> "return", kind |-> "string",
           data |-> SubSeq(text, 1, i - 1) \o SubSeq(text, i + 1, Len(text))]

\* editFile, utils.js:34-45.  rewritten tells whether fs.writeFileSync
\* replaced the file.
editFile(type, file, string, options, noMatch, runtime) ==
  LET updatedContent ==
        IF type = "insert" THEN editerInsert(string, file.data, options, noMatch)
        ELSE editerRemove(string, file.data, noMatch)
  IN IF ~file.exists
       THEN [outcome |-> "throw", err |-> "ENOENT", file |-> file,
             rewritten |-> FALSE]
     ELSE IF updatedContent.outcome = "throw"
       THEN [outcome |-> "throw", err |-> "editer", file |-> file,
             rewritten |-> FALSE]
     ELSE IF updatedContent.kind = "undefined"
       THEN IF runtime = "rejects"
              THEN [outcome |-> "throw", err |-> "TypeError", file |-> file,
                    rewritten |-> FALSE]
            ELSE [outcome |-> "return", err |-> "",
                  file |-> [exists |-> TRUE, data |-> <<"undefined">>],
                  rewritten |-> TRUE]
     ELSE [outcome |-> "return", err |-> "",
           file |-> [exists |-> TRUE, data |-> updatedContent.data],
           rewritten |-> TRUE]

insertToFile(file, string, options, noMatch, runtime) ==
  editFile("insert", file, string, options, noMatch, runtime)

removeFromFile(file, string, noMatch, runtime) ==
  editFile("remove", file, string, [pos |-> "", anchor |-> ""], noMatch, runtime)

MaxEditLen == 3

Chunks == {"ANCHOR", "X", "other"}

EditTexts == UNION {[1..n -> Chunks] : n \in 0..MaxEditLen}

EditFiles ==
  {[exists |-> FALSE, data |-> <<>>]}
  \cup {[exists |-> TRUE, data |-> t] : t \in EditTexts}

NoMatchOutcomes == {"undefined", "unchanged", "throws"}
Runtimes == {"coerces", "rejects"}

NoEdit ==
  [op |-> "none", outcome |-> "none", err |-> "", found |-> FALSE,
   before |-> [exists |-> FALSE, data |-> <<>>], rewritten |-> FALSE]

EditInit ==
  /\ edited = [exists |-> FALSE, data |-> <<>>]
  /\ editLast = NoEdit

\* Another step of the scaffold leaves the file in some state.
SetEdited ==
  /\ \E f \in EditFiles : f # edited /\ edited' = f
  /\ editLast' = NoEdit
  /\ UNCHANGED <<cfgVars, fsVars, execVars>>

InsertToFile ==
  /\ Len(edited.data) < MaxEditLen
  /\ \E pos \in {"before", "after"}, noMatch \in NoMatchOutcomes,
        runtime \in Runtimes :
       LET r == insertToFile(edited, "X", [pos |-> pos, anchor |-> "ANCHOR"],
                             noMatch, runtime)
       IN /\ edited' = r.file
          /\ editLast' = [op |-> "insertToFile", outcome |-> r.outcome,
                          err |-> r.err, found |-> Found(edited.data, "ANCHOR"),
                          before |-> edited, rewritten |-> r.rewritten]
  /\ UNCHANGED <<cfgVars, fsVars, execVars>>

RemoveFromFile ==
  /\ \E noMatch \in NoMatchOutcomes, runtime \in Runtimes :
       LET r == removeFromFile(edited, "X", noMatch, runtime)
       IN /\ edited' = r.file
          /\ editLast' = [op |-> "removeFromFile", outcome |-> r.outcome,
                          err |-> r.err, found |-> Found(edited.data, "X"),
                          before |-> edited, rewritten |-> r.rewritten]
  /\ UNCHANGED <<cfgVars, fsVars, execVars>>

EditNext == SetEdited \/ InsertToFile \/ RemoveFromFile

(***************************************************************************)
(* Commands, utils.js:119-122 and 144-154.  A command is a sequence of     *)
(* characters.  events is what the call did, in order: the logger call     *)
(* and each execSync call, with its argument; status is how the child      *)
(* process ends, and execSync throws when it is not "ok".                  *)
(***************************************************************************)
StartsWith(text, prefix) ==
  Len(text) >= Len(prefix) /\ SubSeq(text, 1, Len(prefix)) = prefix

\* An isWindows whose pattern has lost its anchor: /win/.
isWindowsUnanchored(p) ==
  \E i \in 1..Len(p) : StartsWith(SubSeq(p, i, Len(p)), <<"w", "i", "n">>)

\* isWindows, utils.js:152-154: /^win/.test(process.platform).
isWindows(p) == StartsWith(p, <<"w", "i", "n">>)

\* path.basename(p): the last component of the path.
Basename(p) ==
  LET c == Split(p, <<>>) IN IF c = <<>> THEN <<>> ELSE c[Len(c)]

\* String.prototype.replace(/\..*$/, ''): the text up to its first dot.
CutAtFirstDot(name) ==
  LET i == IndexOf(name, ".", 1)
  IN IF i = 0 THEN name ELSE SubSeq(name, 1, i - 1)

\* Array.prototype.join(' ').
RECURSIVE Join(_)
Join(args) ==
  IF args = <<>> THEN <<>>
  ELSE IF Len(args) = 1 THEN Head(args)
  ELSE Head(args) \o <<" ">> \o Join(Tail(args))

Event(kind, arg) == [kind |-> kind, arg |-> arg]

execSync(cmd, status) ==
  [outcome |-> IF status = "ok" THEN "return" ELSE "throw",
   events |-> <<Event("execSync", cmd)>>]

\* executeCommand, utils.js:119-122.
executeCommand(cmd, status) ==
  LET run == execSync(cmd, status)
  IN [outcome |-> run.outcome,
      events |-> <<Event("logger.run", cmd)>> \o run.events]

\* runScriptFile, utils.js:144-150.
runScriptFile(p, pathToScript, args, status) ==
  LET scriptName == CutAtFirstDot(Basename(pathToScript))
      commandPrefix == IF isWindows(p) THEN <<>> ELSE <<"b", "a", "s", "h">>
      run == execSync(commandPrefix \o <<" ">> \o pathToScript \o <<" ">>
                      \o Join(args), status)
  IN [outcome |-> run.outcome,
      events |-> <<Event("logger.invoke", scriptName)>> \o run.events]

MaxArgs == 2

Platforms ==
  { <<"w", "i", "n", "3", "2">>, <<"d", "a", "r", "w", "i", "n">>,
    <<"l", "i", "n", "u", "x">> }

Commands == {<<"l", "s">>, <<"n", "p", "m", " ", "i">>}

ScriptPaths ==
  { <<"s", ".", "s", "h">>,
    <<".", "/", "b", ".", "d", "/", "s", ".", "t", ".", "s", "h">>,
    <<"b", ".", "d", "/", "r", "u", "n">>,
    <<"b", "/", ".", "s", "h">> }

ArgLists == UNION {[1..n -> {<<"x">>, <<"-", "y">>}] : n \in 0..MaxArgs}

Statuses == {"ok", "failed"}

NoExec ==
  [op |-> "none", arg |-> <<>>, args |-> <<>>, status |-> "none",
   outcome |-> "none", events |-> <<>>]

ExecInit ==
  /\ platform \in Platforms
  /\ execLast = NoExec

ExecIdle ==
  /\ platform = <<"l", "i", "n", "u", "x">>
  /\ execLast = NoExec

ExecuteCommand ==
  /\ \E cmd \in Commands, status \in Statuses :
       LET r == executeCommand(cmd, status)
       IN execLast' = [op |-> "executeCommand", arg |-> cmd, args |-> <<>>,
                       status |-> status, outcome |-> r.outcome, events |-> r.events]
  /\ UNCHANGED <<platform, cfgVars, fsVars, editVars>>

RunScriptFile ==
  /\ \E pathToScript \in ScriptPaths, args \in ArgLists, status \in Statuses :
       LET r == runScriptFile(platform, pathToScript, args, status)
       IN execLast' = [op |-> "runScriptFile", arg |-> pathToScript,
                       args |-> args, status |-> status, outcome |-> r.outcome, events |-> r.events]
  /\ UNCHANGED <<platform, cfgVars, fsVars, editVars>>

ExecNext == ExecuteCommand \/ RunScriptFile

(***************************************************************************)
(* The specifications: one per group of helpers.  The groups share no      *)
(* state, and a call of one leaves the state of the others alone.          *)
(***************************************************************************)
Init == CfgInit /\ FsInit /\ EditInit /\ ExecIdle
InitExec == CfgInit /\ FsInit /\ EditInit /\ ExecInit

SpecConfig == Init /\ [][CfgNext]_vars
SpecFiles == Init /\ [][FsNext]_vars
SpecEdit == Init /\ [][EditNext]_vars
SpecExec == InitExec /\ [][ExecNext]_vars

(***************************************************************************)
(* Properties of the configuration helpers (SpecConfig).                   *)
(***************************************************************************)
\* Two objects with the same keys and the same value at each key.
SameMapping(a, b) ==
  /\ Keys(a) = Keys(b)
  /\ \A k \in Keys(a) : Get(a, k) = Get(b, k)

ReadReturned == cfgLast.op = "readConfig" /\ cfgLast.outcome = "return"

\* C1: DEFAULT_CONFIG is {tabSize: 2, storybook: false} in every reachable
\* state, and what readConfig returns is not the default object itself.
C1_DefaultNeverMutated ==
  /\ SameMapping(DEFAULT_CONFIG, DefaultLiteral)
  /\ ReadReturned => ~cfgLast.sameObject

\* What the current file alone determines: the defaults when it is absent
\* or holds no mapping, the defaults overridden by its mapping otherwise.
FromFileAlone(f) ==
  IF f.lstat = "ENOENT" THEN DefaultLiteral
  ELSE Assign(DefaultLiteral, SafeLoad(f.doc))

\* C2: every readConfig call returns the configuration the current
\* ./mantra_cli.yaml alone determines, whatever calls preceded it.
C2_ReadConfigFromFileOnly ==
  ReadReturned => SameMapping(cfgLast.ret, FromFileAlone(cfgFile))

\* C3: the configuration getCustomConfig(O) builds has every key of O with
\* O's value, the default keys missing from O with the values 2 and false,
\* and no other key; it is what the YAML text holds; O is left as it was.
C3_MergeOverLiteralDefault ==
  cfgLast.op = "getCustomConfig" =>
    LET O == IF cfgLast.arg.kind = "undefined" THEN JsObject(<<>>) ELSE cfgLast.arg
        config == cfgLast.ret
    IN /\ Keys(config) = Keys(O) \cup {"tabSize", "storybook"}
       /\ \A k \in Keys(O) : Get(config, k) = Get(O, k)
       /\ "tabSize" \notin Keys(O) => Get(config, "tabSize") = JsInt("2")
       /\ "storybook" \notin Keys(O) => Get(config, "storybook") = JsBool("false")
       /\ ~YamlMalformed(cfgLast.yaml)
       /\ SameMapping(SafeLoad(cfgLast.yaml), config)
       /\ cfgLast.argAfter = cfgLast.arg

\* C4: checkFileExists gives false exactly on ENOENT, true exactly when
\* lstat succeeds, and rethrows any other lstat error; readConfig throws,
\* with the error as it was raised and no configuration, exactly when the
\* existence check fails otherwise than by ENOENT, the read fails or the
\* YAML does not parse, and returns without reading when the file is absent.
C4_OnlyMissingFileIsRecovered ==
  /\ cfgLast.op = "checkFileExists" =>
       /\ (cfgLast.outcome = "return" /\ cfgLast.ret = JsBool("false"))
            <=> cfgFile.lstat = "ENOENT"
       /\ (cfgLast.outcome = "return" /\ cfgLast.ret = JsBool("true"))
            <=> cfgFile.lstat = "ok"
       /\ cfgLast.outcome = "throw" <=> cfgFile.lstat \notin {"ok", "ENOENT"}
       /\ cfgLast.outcome = "throw" => cfgLast.err = cfgFile.lstat
  /\ cfgLast.op = "readConfig" =>
       /\ cfgLast.outcome = "throw" <=>
            \/ cfgFile.lstat \notin {"ok", "ENOENT"}
            \/ cfgFile.lstat = "ok" /\ cfgFile.read # "ok"
            \/ cfgFile.lstat = "ok" /\ YamlMalformed(cfgFile.doc)
       /\ cfgLast.outcome = "throw" =>
            /\ cfgLast.ret = Undefined
            /\ cfgLast.err =
                 IF cfgFile.lstat # "ok" THEN cfgFile.lstat
                 ELSE IF cfgFile.read # "ok" THEN cfgFile.read
                 ELSE "YAMLException"
       /\ cfgFile.lstat = "ENOENT" =>
            cfgLast.outcome = "return" /\ cfgLast.ret = DEFAULT_CONFIG

\* C4's case: readConfig threw on a file that is there and does not parse.
C4_Witness ==
  /\ cfgLast.op = "readConfig"
  /\ cfgLast.outcome = "throw"
  /\ cfgLast.err = "YAMLException"
  /\ cfgFile.lstat = "ok"

(***************************************************************************)
(* Properties of the template and file helpers (SpecFiles).                *)
(***************************************************************************)
\* The template text holds a ${v} placeholder.
HasPlaceholder(t) ==
  \E i \in 1..Len(t) :
    t[i] = "$" /\ i + 3 <= Len(t) /\ t[i + 1] = "{" /\ t[i + 3] = "}"

\* The template text holds a ${v} placeholder whose v the mapping lacks.
HasUnknownPlaceholder(t, variables) ==
  \E i \in 1..Len(t) :
    /\ t[i] = "$" /\ i + 3 <= Len(t) /\ t[i + 1] = "{" /\ t[i + 3] = "}"
    /\ t[i + 2] \notin Keys(variables)

\* C5: getFileContent without template variables returns the template's
\* content as a string, equal to what it returns with a variables mapping
\* when the template has no placeholder.
C5_NoVariablesGivesText ==
  ( /\ fsLast.op = "getFileContent"
    /\ ~Truthy(fsLast.variables)
    /\ fsLast.outcome = "return" ) =>
      /\ fsLast.content.type = "string"
      /\ ~HasPlaceholder(Templates[fsLast.template]) =>
           fsLast.content = getFileContent(fsLast.template, JsObject(<<>>)).value

CreatedFile == fsLast.op = "createFile" /\ fsLast.outcome = "return"

\* C6: after a successful createFile the target is a file that holds the
\* bytes of the rendered content and nothing else, under directories; and
\* once the content is rendered, the call succeeds whether the parent
\* directories were there or missing and whether a file was at the target.
C6_TargetHoldsRenderedContent ==
  /\ CreatedFile =>
       LET c == Components(fsLast.path)
       IN /\ IsFile(nodes, c)
          /\ nodes[c].data = BytesOf(fsLast.content)
          /\ \A i \in 0..(Len(c) - 1) : IsDir(nodes, SubSeq(c, 1, i))
  /\ ( /\ fsLast.op = "createFile"
       /\ fsLast.content # NoValue
       /\ fsLast.prior \in {"file", "absent", "orphan"} ) =>
         fsLast.outcome = "return"

\* C6's cases: a file of another content was at the target, and the
\* target's parent directory was missing.
C6_Witness ==
  /\ CreatedFile
  /\ fsLast.prior = "file"
  /\ fsLast.template = "name"
  /\ fsLast.variables = Undefined
  /\ Components(fsLast.path) = <<<<"d">>, <<"f">>>>

\* The path shown is the path given less one leading "./".
ShownFor(path, shown) ==
  IF Len(path) >= 2 /\ SubSeq(path, 1, 2) = <<".", "/">>
  THEN path = <<".", "/">> \o shown
  ELSE path = shown

\* C8: a successful createFile or createDir calls logger.create once, when
\* the target is on the disk, with the path less one leading "./" (and a
\* "/" after it for createDir); a failed call does not call it.
C8_OneNotificationAfterTheWrite ==
  fsLast.op \in {"createFile", "createDir"} =>
    /\ fsLast.outcome = "throw" => fsLast.logged = <<>>
    /\ fsLast.outcome = "return" =>
         /\ Len(fsLast.logged) = 1
         /\ fsLast.logged[1].onDisk
         /\ IF fsLast.op = "createFile"
              THEN /\ ShownFor(fsLast.path, fsLast.logged[1].path)
                   /\ IsFile(nodes, Components(fsLast.path))
              ELSE /\ ShownFor(fsLast.path, Front(fsLast.logged[1].path))
                   /\ fsLast.logged[1].path[Len(fsLast.logged[1].path)] = "/"
                   /\ IsDir(nodes, Components(fsLast.path))

\* C8's case: a file was created at a path given with two leading "./".
C8_Witness ==
  /\ CreatedFile
  /\ fsLast.path = <<".", "/", ".", "/", "f">>
  /\ fsLast.prior = "absent"
  /\ fsLast.logged[1].path = <<".", "/", "f">>

C7_MissingAnchorFails ==
  ( /\ editLast.op \in {"insertToFile", "removeFromFile"}
    /\ editLast.before.exists
    /\ ~editLast.found ) =>
      /\ editLast.outcome = "throw"
      /\ ~editLast.rewritten
      /\ edited = editLast.before

(***************************************************************************)
(* Properties of the command helpers (SpecExec).                           *)
(***************************************************************************)
\* The name is the script's base name up to its first dot: it holds no
\* dot and no slash, and the path ends with it, alone or followed by a dot
\* and the rest, right after a slash or at the start of the path.
IsScriptNameOf(name, path) ==
  /\ \A i \in 1..Len(name) : name[i] \notin {".", "/"}
  /\ \E i \in 1..(Len(path) + 1) :
       /\ i = 1 \/ path[i - 1] = "/"
       /\ \A j \in i..Len(path) : path[j] # "/"
       /\ i + Len(name) - 1 <= Len(path)
       /\ SubSeq(path, i, i + Len(name) - 1) = name
       /\ i + Len(name) > Len(path) \/ path[i + Len(name)] = "."

\* C10: each executeCommand or runScriptFile call makes one logger call
\* (logger.run with the command, logger.invoke with the script's name) and
\* then one execSync call, and throws exactly when the command fails;
\* runScriptFile's command starts with bash exactly off Windows, and holds
\* the script path and the arguments joined by spaces.
C10_NotifyThenRunOnce ==
  /\ execLast.op \in {"executeCommand", "runScriptFile"} =>
       /\ Len(execLast.events) = 2
       /\ execLast.events[2].kind = "execSync"
       /\ execLast.outcome = "throw" <=> execLast.status # "ok"
  /\ execLast.op = "executeCommand" =>
       /\ execLast.events[1] = Event("logger.run", execLast.arg)
       /\ execLast.events[2].arg = execLast.arg
  /\ execLast.op = "runScriptFile" =>
       /\ execLast.events[1].kind = "logger.invoke"
       /\ IsScriptNameOf(execLast.events[1].arg, execLast.arg)
       /\ StartsWith(execLast.events[2].arg, <<"b", "a", "s", "h", " ">>)
            <=> platform # <<"w", "i", "n", "3", "2">>
       /\ \E pre \in {<<>>, <<"b", "a", "s", "h">>} :
            execLast.events[2].arg =
              pre \o <<" ">> \o execLast.arg \o <<" ">> \o Join(execLast.args)

\* C10's case: on macOS a script with a dotted directory and two dots in
\* its name failed, after it was announced.
C10_Witness ==
  /\ execLast.op = "runScriptFile"
  /\ platform = <<"d", "a", "r", "w", "i", "n">>
  /\ execLast.outcome = "throw"
  /\ execLast.arg = <<".", "/", "b", ".", "d", "/", "s", ".", "t", ".", "s", "h">>
  /\ execLast.events[1] = Event("logger.invoke", <<"s">>)
  /\ Len(execLast.args) = 2

====
